---- MODULE Spec2Model ----
(***************************************************************************)
(* Ledger of blockchaincyberpunk1/blockchain-network-project: the          *)
(* store-backed BlockchainService (blocks and transactions are documents    *)
(* of two collections), its mining routine, and the SynchronizationService *)
(* working on it.  An await of the JavaScript source is a point where      *)
(* another call may run, so a handler is cut into actions at the awaits    *)
(* that read or write the stores or the fields of the service.             *)
(*                                                                         *)
(* Hashes: SHA-256 is taken to be collision free and is represented by the *)
(* sequence of integers that was hashed.  The hexadecimal digits of a hash *)
(* are given by Digest, a fixed arithmetic function of that sequence.      *)
(***************************************************************************)
EXTENDS Integers, Sequences, FiniteSets, TLC

\* ------------------------------------------------------------------ bounds
NumInstances == 1      \* BlockchainService objects constructed on the store
NumBootInstances == 2  \* BlockchainService objects constructed at once on an empty store
NumMineCalls == 2      \* minePendingTransactions calls (they may overlap)
NumSyncCalls == 1      \* SynchronizationService.synchronizeChain calls
NumTx == 2             \* caller transactions that may be submitted
MaxPending == 3        \* cap on the length of pendingTransactions
MaxClock == 0          \* last value of the clock, in ticks
MaxCandLen == 2        \* longest chain a peer answers with
TicksPerSecond == 2    \* clock ticks per second of Date.prototype.toString
HexRadix == 2          \* number of distinct digits of a hash character
HashDigits == 4        \* digits of a hash that Digest determines
MaxLeaves == 4         \* longest list a Merkle tree is built over
MaxGenesisClock == 7   \* last clock value at which a ledger is initialised
MaxValidCalls == 2        \* isChainValid calls in a row
NumPeers == 2          \* peer nodes a NodeSynchronization asks
MaxNodeLen == 3        \* longest chain a peer node returns
MaxGenesisCount == 3   \* createGenesisBlock calls when synchronizeChain is called repeatedly
NumWalletTx == 2       \* Transaction objects the wallet side constructs

\* ------------------------------------------------------- program constants
difficulty == 4
miningReward == 100
GenesisAmount == 5000
FaucetAmount == 10000
blockTime == 30000
AdjustThreshold == 2000

Instances == 1..NumInstances
BootInstances == 1..NumBootInstances
MineCalls == 1..NumMineCalls
SyncCalls == 1..NumSyncCalls

\* ------------------------------------------------------------- addresses
NullAddr == "null"
Addresses == {"W1", "W2", "W3", "Faucet", "Miner"}

AddrCode(a) ==
  CASE a = "null" -> 0
    [] a = "W1" -> 1
    [] a = "W2" -> 2
    [] a = "W3" -> 3
    [] a = "Faucet" -> 4
    [] a = "Miner" -> 5

SigCode(s) ==
  CASE s = "none" -> 0
    [] s = "genesis-signature" -> 1
    [] s = "good" -> 2
    [] s = "forged" -> 3

\* ----------------------------------------------------------------- hashing
\* 3^k modulo HexRadix^HashDigits, by repeated squaring
RECURSIVE PowerOfThree(_)
PowerOfThree(k) ==
  IF k = 0 THEN 1 % (HexRadix ^ HashDigits)
  ELSE LET half == PowerOfThree(k \div 2)
       IN (half * half * (IF k % 2 = 1 THEN 3 ELSE 1)) % (HexRadix ^ HashDigits)

\* The sum of s[i] * 3^(i-1) modulo HexRadix^HashDigits, computed by halves
\* so that the evaluation depth is logarithmic in Len(s).
RECURSIVE WeightedSum(_)
WeightedSum(s) ==
  IF s = <<>> THEN 0
  ELSE IF Len(s) = 1 THEN s[1] % (HexRadix ^ HashDigits)
  ELSE LET m == Len(s) \div 2
       IN (WeightedSum(SubSeq(s, 1, m))
             + PowerOfThree(m) * WeightedSum(SubSeq(s, m + 1, Len(s))))
            % (HexRadix ^ HashDigits)

\* The first HashDigits characters of the hexadecimal form of hash h, as a
\* number whose low-order digit is the first character.
Digest(h) == (WeightedSum(SubSeq(h, 1, Len(h) - 1)) + h[Len(h)]) % (HexRadix ^ HashDigits)

\* hash.startsWith(Array(d + 1).join("0"))
StartsWithZeros(h, d) == Digest(h) % (HexRadix ^ d) = 0

\* JSON.stringify(tx) of a transaction document, then SHA-256 of it
hashSHA256Tx(tx) ==
  <<tx.id, AddrCode(tx.fromAddress), AddrCode(tx.toAddress), tx.amount, SigCode(tx.signature)>>

\* ------------------------------------------------------------- MerkleTree
NextLevel(hashes) ==
  [k \in 1..((Len(hashes) + 1) \div 2) |->
     LET left == hashes[2 * k - 1]
         right == IF 2 * k <= Len(hashes) THEN hashes[2 * k] ELSE left
     IN left \o right]

RECURSIVE buildTree(_)
buildTree(hashes) ==
  IF Len(hashes) <= 1 THEN hashes ELSE buildTree(NextLevel(hashes))

\* new MerkleTree(transactions.map(JSON.stringify)).getRoot(); the
\* constructor throws on an empty array, which the callers guard: <<>>
\* stands for the root that is never obtained.
MerkleRoot(txs) ==
  LET leaves == [i \in 1..Len(txs) |-> hashSHA256Tx(txs[i])]
      tree == buildTree(leaves)
  IN IF txs = <<>> THEN <<>> ELSE tree[Len(tree)]

\* ------------------------------------------------------------- block hash
ZeroHash == <<0>>

\* `${timestamp}` of a Date: Date.prototype.toString() drops the milliseconds
DateToString(t) == t \div TicksPerSecond

\* BlockchainService.calculateHashForBlock: the timestamp is the number
\* Date.now() returned
calculateHashForBlock(index, previousHash, timestamp, merkleRoot, nonce) ==
  <<index, Len(previousHash)>> \o previousHash \o <<0, timestamp, Len(merkleRoot)>>
    \o merkleRoot \o <<nonce>>

\* blockSchema.methods.calculateHash: the timestamp is a Date
calculateHash(b) ==
  <<b.index, Len(b.previousHash)>> \o b.previousHash
    \o <<1, DateToString(b.timestamp), Len(b.merkleRoot)>> \o b.merkleRoot \o <<b.nonce>>

\* ------------------------------------------------------------------ state
VARIABLES
  blockStore,           \* the documents of the BlockModel collection
  txStore,              \* the documents of the Transaction collection, in insertion order
  pendingTransactions,  \* BlockchainService.pendingTransactions
  chainField,           \* blockchainService.chain, assigned by updateLocalChain only
  genesisCount,         \* createGenesisBlock calls so far (numbers the documents they create)
  initPc, initBlock,    \* initializeBlockchain of each instance: position, genesis block built
  minePc, mineLatest, mineBlock, mineResult,  \* each minePendingTransactions call
  syncLog,              \* history: what each synchronizeChain call was given and did
  accepted,             \* history: ids of the transactions addTransaction has pushed
  appendLog,            \* history: one record per block a mining call stored
  probe,                \* history: the last call of an operation applied to arguments, with its outcome
  difficultyField,      \* blockchainService.difficulty
  txStatus,             \* status of each wallet Transaction object, once constructed
  poolPending,          \* TransactionPool.pendingTransactions (object references)
  poolConfirmed,        \* TransactionPool.confirmedTransactions (object references)
  txSignature           \* signature of each wallet Transaction object

vars == <<blockStore, txStore, pendingTransactions, chainField, genesisCount,
          initPc, initBlock, minePc, mineLatest, mineBlock, mineResult,
          syncLog, accepted, appendLog, probe, difficultyField,
          txStatus, poolPending, poolConfirmed, txSignature>>

\* the variables of the wallet side: Transaction objects and the TransactionPool
walletVars == <<txStatus, poolPending, poolConfirmed, txSignature>>

NoBlock == [index |-> -1]

\* the wallet Transaction objects, by reference
WalletTxs == 1..NumWalletTx

\* --------------------------------------------------------- the block store
\* BlockModel.find().sort({ index: 1 })
getChain ==
  LET n == Cardinality(blockStore)
  IN IF n = 0 THEN <<>>
     ELSE CHOOSE s \in [1..n -> blockStore] :
            /\ \A i, j \in 1..n : i < j => s[i] # s[j]
            /\ \A i \in 1..(n - 1) : s[i].index <= s[i + 1].index

\* BlockModel.findOne().sort({ index: -1 }); null on an empty collection
getLatestBlock ==
  IF blockStore = {} THEN NoBlock
  ELSE CHOOSE b \in blockStore : \A c \in blockStore : c.index <= b.index

\* the unique index on blockSchema.index: an insert of a second document
\* with the same index fails with the duplicate key error 11000
DuplicateKeyMut(b) == FALSE
DuplicateKey(b) == \E c \in blockStore : c.index = b.index

\* this.model('Transaction').find({_id: { $in: ids }}): the stored documents
\* among ids, in the order of the collection
SetOfSeq(s) == {s[i] : i \in 1..Len(s)}
FindTransactions(ids) ==
  LET Wanted(tx) == tx.id \in SetOfSeq(ids) IN SelectSeq(txStore, Wanted)

\* blockSchema.pre('save') on a new document: the Merkle root is computed
\* again from the stored transactions, then the hash from the fields
PreSaveMut(b) == b
PreSave(b) ==
  LET root == MerkleRoot(FindTransactions(b.transactions))
      withRoot == [b EXCEPT !.merkleRoot = root]
  IN [withRoot EXCEPT !.hash = calculateHash(withRoot)]

\* calculateMerkleRoot throws when no transaction of the block is stored
PreSaveThrowsMut(b) == FALSE
PreSaveThrows(b) == FindTransactions(b.transactions) = <<>>

\* ------------------------------------------------------ getBalanceOfAddress
\* the forEach of getBalanceOfAddress over a list of transactions
RECURSIVE BalanceOver(_, _)
BalanceOver(txs, address) ==
  IF txs = <<>> THEN 0
  ELSE LET tx == Head(txs)
       IN BalanceOver(Tail(txs), address)
            - (IF tx.fromAddress = address THEN tx.amount ELSE 0)
            + (IF tx.toAddress = address THEN tx.amount ELSE 0)

\* BlockchainService.getBalanceOfAddress: over the documents Transaction.find
\* returns, which are those of the collection
getBalanceOfAddress(address) == BalanceOver(txStore, address)

\* --------------------------------------------------------- transactions
Transaction(id, fromAddress, toAddress, amount, signature) ==
  [id |-> id, fromAddress |-> fromAddress, toAddress |-> toAddress,
   amount |-> amount, signature |-> signature]

\* transactionSchema.methods.isValid
isValid(tx) == tx.signature # "none" /\ tx.amount > 0

\* The transactions callers submit: transaction n moves n units between
\* two wallets and carries a signature.
CallerTx(n) ==
  Transaction(n, IF n % 2 = 1 THEN "W1" ELSE "W2", IF n % 2 = 1 THEN "W2" ELSE "W3", n, "good")
CallerTxs == {CallerTx(n) : n \in 1..NumTx}
\* the odd ones are built by TransactionService.createTransaction, the even
\* ones by the caller itself, who hands them to addTransaction unsaved
ServiceTxs == {tx \in CallerTxs : tx.id % 2 = 1}

\* the reward transaction of minePendingTransactions call m: no signature,
\* never saved
RewardTransaction(m) == Transaction(100 + m, NullAddr, "Miner", miningReward, "none")

\* the funding transactions of createGenesisBlock, the k-th time it runs
GenesisTransactions(k) ==
  << Transaction(1000 + 10 * k + 1, NullAddr, "W1", GenesisAmount, "genesis-signature"),
     Transaction(1000 + 10 * k + 2, NullAddr, "W2", GenesisAmount, "genesis-signature"),
     Transaction(1000 + 10 * k + 3, NullAddr, "W3", GenesisAmount, "genesis-signature"),
     Transaction(1000 + 10 * k + 4, NullAddr, "Faucet", FaucetAmount, "genesis-signature") >>

Ids(txs) == [i \in 1..Len(txs) |-> txs[i].id]

\* tx.status of a Transaction document: transactionSchema declares no such
\* path and nothing assigns one
StatusOf(tx) == "undefined"

\* The transactions of a sender who spends within and beyond what the
\* genesis block gave it
SpendAmounts == {1, GenesisAmount + 1}
SpendTxs == {Transaction(4000 + a, "W1", "W2", a, "good") : a \in SpendAmounts}

\* the Transaction document with _id id, stored or only in memory
Documents ==
  CallerTxs \cup SpendTxs
    \cup {RewardTransaction(m) : m \in MineCalls}
    \cup UNION {SetOfSeq(GenesisTransactions(k)) : k \in 1..MaxGenesisCount}
DocumentOf(id) == CHOOSE tx \in Documents : tx.id = id

\* the transactions a block lists
ListedDocuments(b) == [i \in 1..Len(b.transactions) |-> DocumentOf(b.transactions[i])]

\* the transactions of the blocks of a chain, in order
RECURSIVE ChainTransactions(_)
ChainTransactions(chain) ==
  IF chain = <<>> THEN <<>>
  ELSE ListedDocuments(Head(chain)) \o ChainTransactions(Tail(chain))

\* BlockchainService.createGenesisBlock: the block it returns
GenesisBlock(k, t) ==
  LET txs == GenesisTransactions(k)
      root == MerkleRoot(txs)
  IN [index |-> 0, previousHash |-> ZeroHash, timestamp |-> t, transactions |-> Ids(txs),
      nonce |-> 0, merkleRoot |-> root,
      hash |-> calculateHashForBlock(0, ZeroHash, t, root, 0)]

\* ----------------------------------------------------------- proof of work
\* BlockchainService.proofOfWork: while the hash does not start with
\* `difficulty` zeros, increment the nonce and recompute the hash
\* the loop of proofOfWork for the value d of this.difficulty
mineWithDifficulty(b, d) ==
  IF StartsWithZeros(b.hash, d) THEN b
  ELSE LET Try(n) == calculateHash([b EXCEPT !.nonce = n])
           n == CHOOSE k \in 1..(HexRadix ^ HashDigits) :
                  /\ StartsWithZeros(Try(k), d)
                  /\ \A j \in 1..(k - 1) : ~StartsWithZeros(Try(j), d)
       IN [b EXCEPT !.nonce = n, !.hash = Try(n)]

proofOfWork(b) == mineWithDifficulty(b, difficultyField)

\* ------------------------------------------------------------ isChainValid
\* BlockchainService.isChainValid, on a chain whose blocks carry the
\* documents (txs) that hasValidTransactions finds for them
hasValidTransactions(b) == \A i \in 1..Len(b.txs) : isValid(b.txs[i])

isChainValidMut(blocks) ==
  /\ probe.op # "isChainValid"
  /\ \A i \in 2..Len(blocks) :
       /\ blocks[i].previousHash = blocks[i - 1].hash
       /\ hasValidTransactions(blocks[i])
       /\ calculateHash(blocks[i]) = blocks[i].hash
isChainValid(blocks) ==
  \A i \in 2..Len(blocks) :
    /\ blocks[i].previousHash = blocks[i - 1].hash
    /\ hasValidTransactions(blocks[i])
    /\ calculateHash(blocks[i]) = blocks[i].hash

\* ------------------------------------------------------------------- Init
Init ==
  /\ blockStore = {}
  /\ txStore = <<>>
  /\ pendingTransactions = <<>>
  /\ chainField = <<>>
  /\ genesisCount = 0
  /\ initPc = [i \in BootInstances |-> "count"]
  /\ initBlock = [i \in BootInstances |-> NoBlock]
  /\ minePc = [m \in MineCalls |-> "idle"]
  /\ mineLatest = [m \in MineCalls |-> NoBlock]
  /\ mineBlock = [m \in MineCalls |-> NoBlock]
  /\ mineResult = [m \in MineCalls |-> "none"]
  /\ syncLog = [s \in SyncCalls |-> [result |-> "none"]]
  /\ accepted = {}
  /\ appendLog = {}
  /\ probe = [op |-> "none"]
  /\ difficultyField = difficulty
  /\ txStatus = [o \in WalletTxs |-> "unconstructed"]
  /\ txSignature = [o \in WalletTxs |-> [kind |-> "null"]]
  /\ poolPending = <<>>
  /\ poolConfirmed = <<>>

\* Date.now(): a time of the bounded clock, not before the newest stored block
StoredTimes == {b.timestamp : b \in blockStore}
DateNow(t) == t \in 0..MaxClock /\ \A u \in StoredTimes : u <= t

\* ----------------------------------------------------- initializeBlockchain
\* const count = await BlockModel.countDocuments()
InitCount(i) ==
  /\ initPc[i] = "count"
  /\ \A j \in Instances : j < i => initPc[j] # "count"
  /\ initPc' = [initPc EXCEPT ![i] = IF blockStore = {} THEN "create" ELSE "done"]
  /\ UNCHANGED <<probe, difficultyField, walletVars, blockStore, txStore, pendingTransactions, chainField, genesisCount,
                 initBlock, minePc, mineLatest, mineBlock, mineResult, syncLog, accepted, appendLog>>

\* const genesisBlock = await this.createGenesisBlock()
InitCreate(i) ==
  /\ initPc[i] = "create"
  /\ genesisCount' = genesisCount + 1
  /\ txStore' = txStore \o GenesisTransactions(genesisCount + 1)
  /\ \E t \in 0..MaxClock :
       /\ DateNow(t)
       /\ initBlock' = [initBlock EXCEPT ![i] = GenesisBlock(genesisCount + 1, t)]
  /\ initPc' = [initPc EXCEPT ![i] = "save"]
  /\ UNCHANGED <<probe, difficultyField, walletVars, blockStore, pendingTransactions, chainField,
                 minePc, mineLatest, mineBlock, mineResult, syncLog, accepted, appendLog>>

\* await this.safeBlockSave(genesisBlock)
InitSave(i) ==
  /\ initPc[i] = "save"
  /\ LET b == PreSave(initBlock[i])
     IN IF DuplicateKey(b)
        THEN /\ initPc' = [initPc EXCEPT ![i] = "failed"]
             /\ UNCHANGED blockStore
        ELSE /\ initPc' = [initPc EXCEPT ![i] = "done"]
             /\ blockStore' = blockStore \cup {b}
  /\ initBlock' = [initBlock EXCEPT ![i] = NoBlock]
  /\ UNCHANGED <<probe, difficultyField, walletVars, txStore, pendingTransactions, chainField, genesisCount,
                 minePc, mineLatest, mineBlock, mineResult, syncLog, accepted, appendLog>>

\* ---------------------------------------------------- TransactionService
\* createTransaction: a valid transaction is saved before it is returned
createTransaction(tx) ==
  /\ tx.toAddress # NullAddr /\ tx.amount > 0 /\ tx.signature # "none"
  /\ isValid(tx)
  /\ \A i \in 1..Len(txStore) : txStore[i].id # tx.id
  /\ txStore' = Append(txStore, tx)
  /\ UNCHANGED <<probe, difficultyField, walletVars, blockStore, pendingTransactions, chainField, genesisCount,
                 initPc, initBlock, minePc, mineLatest, mineBlock, mineResult,
                 syncLog, accepted, appendLog>>

\* ------------------------------------------------------- addTransaction
\* What callers hand to addTransaction: a document createTransaction has
\* returned, or one of their own
Submittable == {tx \in CallerTxs : tx \in ServiceTxs => tx \in SetOfSeq(txStore)}

\* how addTransaction ends for an argument: with one of its two errors, or
\* with the push
addTransactionOutcomeMut(tx) ==
  IF tx.fromAddress = NullAddr \/ tx.toAddress = NullAddr THEN "MissingAddress" ELSE "ok"
addTransactionOutcome(tx) ==
  IF tx.fromAddress = NullAddr \/ tx.toAddress = NullAddr THEN "MissingAddress"
  ELSE IF ~isValid(tx) THEN "InvalidTransaction"
  ELSE "ok"

\* Each caller transaction is a fresh document and is submitted once.
addTransaction(tx) ==
  /\ tx.id \notin accepted
  /\ Len(pendingTransactions) < MaxPending
  /\ addTransactionOutcome(tx) = "ok"
  /\ pendingTransactions' = Append(pendingTransactions, tx)
  /\ accepted' = accepted \cup {tx.id}
  /\ UNCHANGED <<probe, difficultyField, walletVars, blockStore, txStore, chainField, genesisCount,
                 initPc, initBlock, minePc, mineLatest, mineBlock, mineResult, syncLog, appendLog>>

\* ------------------------------------------------ minePendingTransactions

\* if (this.pendingTransactions.length === 0) throw;
\* const latestBlock = await this.getLatestBlock()
MineStartMut(m) ==
  /\ minePc[m] = "idle"
  /\ minePc' = [minePc EXCEPT ![m] = "build"]
  /\ mineLatest' = [mineLatest EXCEPT ![m] = getLatestBlock]
  /\ UNCHANGED <<probe, difficultyField, walletVars, blockStore, txStore, pendingTransactions, chainField, genesisCount,
                 initPc, initBlock, mineBlock, mineResult, syncLog, accepted, appendLog>>

MineStart(m) ==
  /\ minePc[m] = "idle"
  /\ \A k \in MineCalls : k < m => minePc[k] # "idle"
  /\ IF Len(pendingTransactions) = 0
     THEN /\ minePc' = [minePc EXCEPT ![m] = "done"]
          /\ mineResult' = [mineResult EXCEPT ![m] = "NoTransactions"]
          /\ UNCHANGED mineLatest
     ELSE /\ minePc' = [minePc EXCEPT ![m] = "build"]
          /\ mineLatest' = [mineLatest EXCEPT ![m] = getLatestBlock]
          /\ UNCHANGED mineResult
  /\ UNCHANGED <<probe, difficultyField, walletVars, blockStore, txStore, pendingTransactions, chainField, genesisCount,
                 initPc, initBlock, mineBlock, syncLog, accepted, appendLog>>

\* the block built from the tip read and the queue as it is now
NewBlockPreviousHashMut(latest) == latest.previousHash
NewBlockPreviousHash(latest) == latest.hash

NewBlockIndexMut(latest) == latest.index + 2
NewBlockIndex(latest) == latest.index + 1

NewBlock(latest, txs, t) ==
  LET root == MerkleRoot(txs)
  IN [index |-> NewBlockIndex(latest), previousHash |-> NewBlockPreviousHash(latest),
      timestamp |-> t, transactions |-> Ids(txs), nonce |-> 0, merkleRoot |-> root,
      hash |-> calculateHashForBlock(NewBlockIndex(latest), NewBlockPreviousHash(latest), t, root, 0)]

\* lines 156-184: the reward is pushed, the block is built from the whole
\* queue and proofOfWork runs to its end (it holds no await)
MineBuild(m) ==
  /\ minePc[m] = "build"
  /\ pendingTransactions' = Append(pendingTransactions, RewardTransaction(m))
  /\ IF mineLatest[m] = NoBlock
     THEN /\ minePc' = [minePc EXCEPT ![m] = "done"]
          /\ mineResult' = [mineResult EXCEPT ![m] = "TypeError"]
          /\ mineLatest' = [mineLatest EXCEPT ![m] = NoBlock]
          /\ UNCHANGED mineBlock
     ELSE /\ \E t \in 0..MaxClock :
               /\ DateNow(t)
               /\ mineBlock' = [mineBlock EXCEPT ![m] =
                    proofOfWork(NewBlock(mineLatest[m], pendingTransactions', t))]
          /\ minePc' = [minePc EXCEPT ![m] = "save"]
          /\ mineLatest' = [mineLatest EXCEPT ![m] = NoBlock]
          /\ UNCHANGED mineResult
  /\ UNCHANGED <<probe, difficultyField, walletVars, blockStore, txStore, chainField, genesisCount,
                 initPc, initBlock, syncLog, accepted, appendLog>>

\* await this.safeBlockSave(newBlock): block.save() runs the pre('save')
\* hook, then the store inserts the document or answers with the duplicate
\* key error; safeBlockSave throws either error again
MineSave(m) ==
  /\ minePc[m] = "save"
  /\ mineBlock' = [mineBlock EXCEPT ![m] = NoBlock]
  /\ IF PreSaveThrows(mineBlock[m])
     THEN /\ minePc' = [minePc EXCEPT ![m] = "done"]
          /\ mineResult' = [mineResult EXCEPT ![m] = "MerkleError"]
          /\ UNCHANGED <<blockStore, appendLog>>
     ELSE LET b == PreSave(mineBlock[m])
          IN IF DuplicateKey(b)
             THEN /\ minePc' = [minePc EXCEPT ![m] = "done"]
                  /\ mineResult' = [mineResult EXCEPT ![m] = "DuplicateIndex"]
                  /\ UNCHANGED <<blockStore, appendLog>>
             ELSE /\ blockStore' = blockStore \cup {b}
                  /\ appendLog' = appendLog \cup
                       {[call |-> m, index |-> b.index,
                         previousHash |-> b.previousHash,
                         tipHash |-> getLatestBlock.hash]}
                  /\ minePc' = [minePc EXCEPT ![m] = "clear"]
                  /\ UNCHANGED mineResult
  /\ UNCHANGED <<probe, difficultyField, walletVars, txStore, pendingTransactions, chainField, genesisCount,
                 initPc, initBlock, mineLatest, syncLog, accepted>>

\* this.pendingTransactions = []
MineClear(m) ==
  /\ minePc[m] = "clear"
  /\ pendingTransactions' = <<>>
  /\ minePc' = [minePc EXCEPT ![m] = "done"]
  /\ mineResult' = [mineResult EXCEPT ![m] = "ok"]
  /\ UNCHANGED <<probe, difficultyField, walletVars, blockStore, txStore, chainField, genesisCount,
                 initPc, initBlock, mineLatest, mineBlock, syncLog, accepted, appendLog>>

\* ------------------------------------------------- SynchronizationService
\* What a peer answers on /chain, after response.json(): plain objects.  A
\* peer block also carries txs, the peer's documents behind its transaction
\* ids, which the local code never sees.
PeerTx(i, bad) == Transaction(2000 + i, "W1", "W2", 1, IF bad THEN "none" ELSE "good")

PeerBlock(i, n, prevHash, defect) ==
  LET last == (i = n - 1) /\ (i > 0)
      txs == << PeerTx(i, last /\ defect = "badTx") >>
      root == MerkleRoot(txs)
      prev == IF last /\ defect = "brokenLink" THEN ZeroHash ELSE prevHash
      raw == [index |-> i, previousHash |-> prev, timestamp |-> 0, transactions |-> Ids(txs),
              nonce |-> 0, merkleRoot |-> root, hash |-> <<0>>, txs |-> txs,
              instanceOfBlock |-> FALSE]
      hashed == [raw EXCEPT !.hash = calculateHash(raw)]
      mined == IF i = 0 THEN hashed ELSE mineWithDifficulty(hashed, difficulty)
  IN IF last /\ defect = "badHash"
     THEN [mined EXCEPT !.hash = calculateHash([mined EXCEPT !.nonce = mined.nonce + 1])]
     ELSE mined

RECURSIVE PeerChain(_, _, _)
PeerChain(k, n, defect) ==
  IF k = 0 THEN <<>>
  ELSE LET front == PeerChain(k - 1, n, defect)
           prevHash == IF k = 1 THEN ZeroHash ELSE front[k - 1].hash
       IN Append(front, PeerBlock(k - 1, n, prevHash, defect))

Defects == {"none", "brokenLink", "badHash", "badTx"}
Candidates ==
  {[isArray |-> FALSE, blocks |-> <<>>]}
    \cup {[isArray |-> TRUE, blocks |-> PeerChain(n, n, d)] : n \in 0..MaxCandLen, d \in Defects}

\* the fields of a block on the wire
Wire(b) ==
  [index |-> b.index, previousHash |-> b.previousHash, timestamp |-> b.timestamp,
   transactions |-> b.transactions, nonce |-> b.nonce, merkleRoot |-> b.merkleRoot,
   hash |-> b.hash]
WireChain(c) == [i \in 1..Len(c) |-> Wire(c[i])]

\* ValidationService.validateChain: "true", or "throw" when it throws
validateChain(chain) ==
  IF Len(chain) = 0 THEN "throw"
  ELSE IF \E i \in 2..Len(chain) :
            \/ ~chain[i].instanceOfBlock \/ ~chain[i - 1].instanceOfBlock
            \/ chain[i].previousHash # chain[i - 1].hash
            \/ chain[i].hash # calculateHash(chain[i])
       THEN "throw"
       ELSE "true"

\* networkChain.length <= this.blockchainService.getChain().length: getChain
\* is async, the length of the promise it returns is undefined, and a
\* comparison with undefined is false
LengthOfGetChain == "undefined"
LessOrEqual(n, len) == IF len = "undefined" THEN FALSE ELSE n <= len

\* SynchronizationService.validateNetworkChain
validateNetworkChain(cand) ==
  IF ~cand.isArray \/ LessOrEqual(Len(cand.blocks), LengthOfGetChain)
  THEN "false"
  ELSE validateChain(cand.blocks)

\* SynchronizationService.updateLocalChain: the chain is reset to one new
\* genesis block (the promise of it), then addBlock, which BlockchainService
\* does not define, is called for the first block: a TypeError
updateLocalChain(networkChain, k, t) ==
  IF Len(networkChain) = 0
  THEN [chain |-> <<GenesisBlock(k, t)>>, result |-> "accepted"]
  ELSE [chain |-> <<GenesisBlock(k, t)>>, result |-> "TypeError"]

\* SynchronizationService.synchronizeChain, from the parsed answer on:
\* the value left in blockchainService.chain and how the call ends
SyncOutcomeMut(cand, k, t) ==
  IF cand.isArray /\ Len(cand.blocks) > 0
  THEN [chain |-> cand.blocks, result |-> "accepted", updated |-> FALSE]
  ELSE [chain |-> chainField, result |-> "rejected", updated |-> FALSE]
SyncOutcome(cand, k, t) ==
  LET v == validateNetworkChain(cand)
  IN IF v = "true"
     THEN LET u == updateLocalChain(cand.blocks, k, t)
          IN [chain |-> u.chain, result |-> u.result, updated |-> TRUE]
     ELSE [chain |-> chainField, result |-> IF v = "false" THEN "rejected" ELSE "threw",
           updated |-> FALSE]

Synchronize(s, cand) ==
  /\ syncLog[s].result = "none"
  /\ \A r \in SyncCalls : r < s => syncLog[r].result # "none"
  /\ \E t \in 0..MaxClock :
       /\ DateNow(t)
       /\ LET o == SyncOutcome(cand, genesisCount + 1, t)
          IN /\ chainField' = o.chain
             /\ IF o.updated
                THEN /\ genesisCount' = genesisCount + 1
                     /\ txStore' = txStore \o GenesisTransactions(genesisCount + 1)
                ELSE UNCHANGED <<genesisCount, txStore>>
             /\ syncLog' = [syncLog EXCEPT ![s] =
                  [result |-> o.result, cand |-> cand.blocks,
                   mining |-> {m \in MineCalls : minePc[m] \in {"build", "save"}},
                   chainBefore |-> getChain, fieldBefore |-> chainField,
                   chainAfter |-> getChain, fieldAfter |-> o.chain]]
  /\ UNCHANGED <<probe, difficultyField, walletVars, blockStore, pendingTransactions, initPc, initBlock,
                 minePc, mineLatest, mineBlock, mineResult, accepted, appendLog>>

Next ==
  \/ \E i \in Instances : InitCount(i)
  \/ \E i \in Instances : InitCreate(i)
  \/ \E i \in Instances : InitSave(i)
  \/ \E tx \in ServiceTxs : createTransaction(tx)
  \/ \E tx \in Submittable : addTransaction(tx)
  \/ \E m \in MineCalls : MineStart(m)
  \/ \E m \in MineCalls : MineBuild(m)
  \/ \E m \in MineCalls : MineSave(m)
  \/ \E m \in MineCalls : MineClear(m)
  \/ \E s \in SyncCalls, cand \in Candidates : Synchronize(s, cand)

Spec == Init /\ [][Next]_vars

\* ------------------------------------------------- auditing a stored chain
\* A stored block together with the documents hasValidTransactions finds
\* for it, and the chain isChainValid reads: BlockModel.find().sort({index: 1})
WithTransactions(b) ==
  [index |-> b.index, previousHash |-> b.previousHash, timestamp |-> b.timestamp,
   transactions |-> b.transactions, nonce |-> b.nonce, merkleRoot |-> b.merkleRoot,
   hash |-> b.hash, txs |-> FindTransactions(b.transactions)]
StoredChain == [i \in 1..Len(getChain) |-> WithTransactions(getChain[i])]

\* Nothing in the two collections has been altered from outside: every
\* stored transaction is the document that was saved, every stored block
\* has the hash and the link it was saved with.
Untampered ==
  /\ \A i \in 1..Len(txStore) : txStore[i] = DocumentOf(txStore[i].id)
  /\ \A b \in blockStore : b.hash = calculateHash(b)
  /\ \A i \in 2..Len(getChain) : getChain[i].previousHash = getChain[i - 1].hash

\* Someone with access to the database alters a stored transaction that a
\* stored block lists: another amount, or the signature removed.
TamperChanges == {"amount", "signature"}
TamperTransaction(i, change) ==
  /\ Untampered
  /\ i \in 1..Len(txStore)
  /\ \E b \in blockStore : b.index > 0 /\ txStore[i].id \in SetOfSeq(b.transactions)
  /\ txStore' = [txStore EXCEPT ![i] =
       IF change = "amount" THEN [@ EXCEPT !.amount = @ + 1]
       ELSE [@ EXCEPT !.signature = "none"]]
  /\ UNCHANGED <<probe, difficultyField, walletVars, blockStore, pendingTransactions, chainField, genesisCount,
                 initPc, initBlock, minePc, mineLatest, mineBlock, mineResult,
                 syncLog, accepted, appendLog>>

\* ... or alters a field of a stored block
TamperFields == {"hash", "previousHash"}
TamperBlock(b, field) ==
  /\ Untampered
  /\ b \in blockStore /\ b.index > 0
  /\ blockStore' = (blockStore \ {b}) \cup
       {IF field = "hash" THEN [b EXCEPT !.hash = ZeroHash]
        ELSE [b EXCEPT !.previousHash = ZeroHash]}
  /\ UNCHANGED <<probe, difficultyField, walletVars, txStore, pendingTransactions, chainField, genesisCount,
                 initPc, initBlock, minePc, mineLatest, mineBlock, mineResult,
                 syncLog, accepted, appendLog>>

NextAudit ==
  \/ \E i \in Instances : InitCount(i)
  \/ \E i \in Instances : InitCreate(i)
  \/ \E i \in Instances : InitSave(i)
  \/ \E tx \in ServiceTxs : createTransaction(tx)
  \/ \E tx \in Submittable : addTransaction(tx)
  \/ \E m \in MineCalls : MineStart(m)
  \/ \E m \in MineCalls : MineBuild(m)
  \/ \E m \in MineCalls : MineSave(m)
  \/ \E m \in MineCalls : MineClear(m)
  \/ \E i \in DOMAIN txStore, change \in TamperChanges : TamperTransaction(i, change)
  \/ \E b \in blockStore, field \in TamperFields : TamperBlock(b, field)

SpecAudit == Init /\ [][NextAudit]_vars

\* ------------------------------------------- addTransaction, any argument
\* The documents a caller can hand to addTransaction: sender and recipient
\* present or not, amount positive or not, and no signature, the sender's
\* signature, or a signature that is not the sender's.
InputTx(fromAddress, toAddress, amount, signature) ==
  Transaction(3000 + 100 * AddrCode(fromAddress) + 20 * AddrCode(toAddress)
                + 4 * amount + SigCode(signature),
              fromAddress, toAddress, amount, signature)
InputTxs ==
  {InputTx(f, t, a, g) : f \in {NullAddr, "W1"}, t \in {NullAddr, "W2"},
                         a \in {0, 1}, g \in {"none", "good", "forged"}}

\* BlockchainService.addTransaction, the whole call
addTransactionCall(tx) ==
  /\ Len(pendingTransactions) < MaxPending
  /\ LET outcome == addTransactionOutcome(tx)
         after == IF outcome = "ok" THEN Append(pendingTransactions, tx)
                  ELSE pendingTransactions
     IN /\ pendingTransactions' = after
        /\ accepted' = IF outcome = "ok" THEN accepted \cup {tx.id} ELSE accepted
        /\ probe' = [op |-> "addTransaction", tx |-> tx, result |-> outcome,
                     pendingBefore |-> pendingTransactions, pendingAfter |-> after,
                     chainBefore |-> getChain, chainAfter |-> getChain]
  /\ UNCHANGED <<difficultyField, walletVars, blockStore, txStore, chainField, genesisCount, initPc, initBlock,
                 minePc, mineLatest, mineBlock, mineResult, syncLog, appendLog>>

NextAdd ==
  \/ \E i \in Instances : InitCount(i)
  \/ \E i \in Instances : InitCreate(i)
  \/ \E i \in Instances : InitSave(i)
  \/ \E tx \in InputTxs : addTransactionCall(tx)

SpecAdd == Init /\ [][NextAdd]_vars

\* ------------------------------------------------------------------ Wallet
\* Wallet.calculateBalances, for the wallet with the given public key, on a
\* ledger with the given chain transactions and pending transactions
RECURSIVE PendingBalanceOver(_, _)
PendingBalanceOver(pending, publicKey) ==
  IF pending = <<>> THEN 0
  ELSE PendingBalanceOver(Tail(pending), publicKey)
         - (IF Head(pending).fromAddress = publicKey THEN Head(pending).amount ELSE 0)

calculateBalances(chainTransactions, pending, publicKey) ==
  LET confirmedBalance == BalanceOver(chainTransactions, publicKey)
      pendingBalance == PendingBalanceOver(pending, publicKey)
  IN [confirmedBalance |-> confirmedBalance, pendingBalance |-> pendingBalance,
      availableBalance |-> confirmedBalance - pendingBalance]

\* ---------------------------------------------------------- Merkle proofs
\* The transactions a tree is built over, and the lists of them.
LeafTxs == CallerTxs
LeafLists == UNION {[1..n -> LeafTxs] : n \in 1..MaxLeaves}

\* a < b of two hexadecimal strings, as JavaScript compares strings
LessThan(a, b) ==
  \E i \in 1..(Len(b)) :
    /\ \A j \in 1..(i - 1) : j <= Len(a) /\ a[j] = b[j]
    /\ \/ i = Len(a) + 1
       \/ i <= Len(a) /\ a[i] < b[i]

\* hashSHA256(left + right)
hashPair(left, right) == left \o right

\* this.leaves.indexOf(hash), counted from 0
indexOf(leaves, hash) ==
  IF \E i \in 1..Len(leaves) : leaves[i] = hash
  THEN (CHOOSE i \in 1..Len(leaves) :
          leaves[i] = hash /\ \A j \in 1..(i - 1) : leaves[j] # hash) - 1
  ELSE -1

\* MerkleTree.generateProof (TransactionPool.js 170-194): the loop steps
\* with level = this.buildTree(level), which is the one-element array of
\* the root.
RECURSIVE generateProofLoop(_, _)
generateProofLoop(level, index) ==
  IF Len(level) > 1
  THEN LET siblingIndex == IF index % 2 = 0 THEN index + 1 ELSE index - 1
           inBounds == IF siblingIndex < Len(level) THEN siblingIndex ELSE index
       IN <<level[inBounds + 1]>> \o generateProofLoop(buildTree(level), index \div 2)
  ELSE <<>>

generateProof(transactions, transaction) ==
  LET leaves == [i \in 1..Len(transactions) |-> hashSHA256Tx(transactions[i])]
  IN generateProofLoop(leaves, indexOf(leaves, hashSHA256Tx(transaction)))

\* MerkleTree.generateProof of the second class (TransactionPool.js 307-327):
\* the loop steps with getNextLayer, and a missing sibling is left out.
RECURSIVE generateProofLayers(_, _)
generateProofLayers(layer, index) ==
  IF Len(layer) > 1
  THEN LET siblingIndex == IF index % 2 = 1 THEN index - 1 ELSE index + 1
           pushed == IF siblingIndex < Len(layer) THEN <<layer[siblingIndex + 1]>> ELSE <<>>
       IN pushed \o generateProofLayers(NextLevel(layer), index \div 2)
  ELSE <<>>

generateProofSecond(transactions, transaction) ==
  LET leaves == [i \in 1..Len(transactions) |-> hashSHA256Tx(transactions[i])]
  IN generateProofLayers(leaves, indexOf(leaves, hashSHA256Tx(transaction)))

\* MerkleTree.verifyProof, the same in both classes
RECURSIVE verifyProofLoop(_, _)
verifyProofLoop(computedHash, proof) ==
  IF proof = <<>> THEN computedHash
  ELSE LET siblingHash == Head(proof)
           isLeft == LessThan(computedHash, siblingHash)
       IN verifyProofLoop(IF isLeft THEN hashPair(computedHash, siblingHash)
                          ELSE hashPair(siblingHash, computedHash),
                          Tail(proof))

verifyProof(proof, root, transaction) ==
  verifyProofLoop(hashSHA256Tx(transaction), proof) = root

\* A tree is built over a list, a proof is generated for the transaction
\* at position k and verified against the root.
ProofRecord(class, transactions, k, proof) ==
  [op |-> "generateProof", class |-> class, transactions |-> Ids(transactions),
   position |-> k, proof |-> proof, root |-> MerkleRoot(transactions),
   verified |-> verifyProof(proof, MerkleRoot(transactions), transactions[k])]

ProveAndVerify(transactions, k) ==
  /\ probe' = ProofRecord("first", transactions, k,
                          generateProof(transactions, transactions[k]))
  /\ UNCHANGED <<difficultyField, walletVars, blockStore, txStore, pendingTransactions, chainField, genesisCount,
                 initPc, initBlock, minePc, mineLatest, mineBlock, mineResult,
                 syncLog, accepted, appendLog>>

ProveAndVerifySecond(transactions, k) ==
  /\ probe' = ProofRecord("second", transactions, k,
                          generateProofSecond(transactions, transactions[k]))
  /\ UNCHANGED <<difficultyField, walletVars, blockStore, txStore, pendingTransactions, chainField, genesisCount,
                 initPc, initBlock, minePc, mineLatest, mineBlock, mineResult,
                 syncLog, accepted, appendLog>>

NextMerkle ==
  \/ \E transactions \in LeafLists, k \in 1..MaxLeaves :
       k <= Len(transactions) /\ ProveAndVerify(transactions, k)
  \/ \E transactions \in LeafLists, k \in 1..MaxLeaves :
       k <= Len(transactions) /\ ProveAndVerifySecond(transactions, k)

SpecMerkle == Init /\ [][NextMerkle]_vars

\* ----------------------------------- createGenesisBlock on two ledgers
\* Two ledgers, each on its own empty store, run createGenesisBlock: the
\* one whose transactions get the ObjectIds of the k1-th creation at clock
\* t1, the other those of the k2-th at t2. ObjectIds are never shared and
\* the two run at different times.
GenesisCreations == 1..(NumInstances + NumSyncCalls)
GenesisClock == 0..MaxGenesisClock

createGenesisBlockTwice(k1, t1, k2, t2) ==
  /\ k1 # k2
  /\ t1 # t2
  /\ probe' = [op |-> "createGenesisBlock",
               first |-> GenesisBlock(k1, t1), firstAt |-> t1,
               second |-> GenesisBlock(k2, t2), secondAt |-> t2]
  /\ UNCHANGED <<difficultyField, walletVars, blockStore, txStore, pendingTransactions, chainField, genesisCount,
                 initPc, initBlock, minePc, mineLatest, mineBlock, mineResult,
                 syncLog, accepted, appendLog>>

NextGenesis ==
  \E k1 \in GenesisCreations, k2 \in GenesisCreations, t1 \in GenesisClock, t2 \in GenesisClock :
    createGenesisBlockTwice(k1, t1, k2, t2)

SpecGenesis == Init /\ [][NextGenesis]_vars

\* ---------------------------------------------------------- MiningService
\* The times, in milliseconds, a caller reports to adjustDifficulty.
BlockTimes == {0, AdjustThreshold - 1, AdjustThreshold, 2 * blockTime + 1}

MathMaxMut(a, b) == b
MathMax(a, b) == IF a >= b THEN a ELSE b

\* MiningService.adjustDifficulty(blockTime)
adjustDifficulty(time) ==
  LET currentDifficulty == difficultyField
      newDifficulty == IF time < AdjustThreshold THEN currentDifficulty + 1
                       ELSE currentDifficulty - 1
  IN /\ MathMax(1, newDifficulty) <= HashDigits
     /\ difficultyField' = MathMax(1, newDifficulty)
     /\ probe' = [op |-> "adjustDifficulty", blockTime |-> time,
                  before |-> currentDifficulty]
     /\ UNCHANGED <<walletVars, blockStore, txStore, pendingTransactions, chainField,
                    genesisCount, initPc, initBlock, minePc, mineLatest, mineBlock,
                    mineResult, syncLog, accepted, appendLog>>

\* The ledger with a MiningService whose adjustDifficulty is called at any
\* moment with any time.
NextDifficulty ==
  \/ \E i \in Instances : InitCount(i)
  \/ \E i \in Instances : InitCreate(i)
  \/ \E i \in Instances : InitSave(i)
  \/ \E tx \in ServiceTxs : createTransaction(tx)
  \/ \E tx \in Submittable : addTransaction(tx)
  \/ \E m \in MineCalls : MineStart(m)
  \/ \E m \in MineCalls : MineBuild(m)
  \/ \E m \in MineCalls : MineSave(m)
  \/ \E m \in MineCalls : MineClear(m)
  \/ \E time \in BlockTimes : adjustDifficulty(time)

SpecDifficulty == Init /\ [][NextDifficulty]_vars

\* -------------------------------------- wallet Transaction, TransactionPool
\* The ledger side of the store, which the wallet side never touches.
ledgerVars == <<blockStore, txStore, pendingTransactions, chainField, genesisCount,
                initPc, initBlock, minePc, mineLatest, mineBlock, mineResult,
                syncLog, accepted, appendLog, difficultyField>>

\* Transaction.constructor: this.status = "pending"
constructTransaction(o) ==
  /\ txStatus[o] = "unconstructed"
  /\ txStatus' = [txStatus EXCEPT ![o] = "pending"]
  /\ UNCHANGED <<probe, poolPending, poolConfirmed, txSignature, ledgerVars>>

\* the property id of a Transaction object: the class defines none
IdOf(o) == "undefined"

\* targetPool.findIndex((t) => t.id === id), counted from 1; 0 when none
findIndex(pool, id) ==
  IF \E i \in 1..Len(pool) : IdOf(pool[i]) = id
  THEN CHOOSE i \in 1..Len(pool) :
         IdOf(pool[i]) = id /\ \A j \in 1..(i - 1) : IdOf(pool[j]) # id
  ELSE 0

\* the pool after TransactionPool.addOrUpdateTransaction has put o in it
Put(pool, o) ==
  LET transactionIndex == findIndex(pool, IdOf(o))
  IN IF transactionIndex # 0 THEN [pool EXCEPT ![transactionIndex] = o]
     ELSE Append(pool, o)

\* TransactionPool.addOrUpdateTransaction(transaction)
addOrUpdateTransaction(o) ==
  /\ txStatus[o] # "unconstructed"
  /\ CASE txStatus[o] = "pending" ->
            /\ poolPending' = Put(poolPending, o)
            /\ UNCHANGED poolConfirmed
       [] txStatus[o] = "confirmed" ->
            /\ poolConfirmed' = Put(poolConfirmed, o)
            /\ UNCHANGED poolPending
       [] OTHER -> UNCHANGED <<poolPending, poolConfirmed>>
  /\ UNCHANGED <<probe, txStatus, txSignature, ledgerVars>>

\* Transaction.updateStatus(newStatus): the status afterwards and how the
\* call ends
StatusTargets == {"pending", "confirmed", "available", "rejected"}
updateStatusOutcome(status, newStatus) ==
  IF newStatus \in {"pending", "confirmed", "available"}
  THEN [status |-> newStatus, result |-> "ok"]
  ELSE [status |-> status, result |-> "Error"]

updateStatus(o, newStatus) ==
  /\ txStatus[o] # "unconstructed"
  /\ LET outcome == updateStatusOutcome(txStatus[o], newStatus)
     IN /\ txStatus' = [txStatus EXCEPT ![o] = outcome.status]
        /\ probe' = [op |-> "updateStatus", transaction |-> o, before |-> txStatus[o],
                     newStatus |-> newStatus, result |-> outcome.result,
                     after |-> outcome.status]
  /\ UNCHANGED <<poolPending, poolConfirmed, txSignature, ledgerVars>>

\* TransactionPool.confirmTransaction(transactionId)
TransactionIds == {"undefined", "tx-1"}
confirmTransaction(transactionId) ==
  /\ Len(poolConfirmed) < MaxPending
  /\ LET transactionIndex == findIndex(poolPending, transactionId)
     IN IF transactionIndex # 0
        THEN LET transaction == poolPending[transactionIndex]
             IN /\ poolPending' = [i \in 1..(Len(poolPending) - 1) |->
                                     IF i < transactionIndex THEN poolPending[i]
                                     ELSE poolPending[i + 1]]
                /\ txStatus' = [txStatus EXCEPT ![transaction] =
                                  updateStatusOutcome(txStatus[transaction], "confirmed").status]
                /\ poolConfirmed' = Append(poolConfirmed, transaction)
        ELSE UNCHANGED <<txStatus, poolPending, poolConfirmed>>
  /\ UNCHANGED <<probe, txSignature, ledgerVars>>

NextPool ==
  \/ \E o \in WalletTxs : constructTransaction(o)
  \/ \E o \in WalletTxs : addOrUpdateTransaction(o)
  \/ \E o \in WalletTxs, newStatus \in StatusTargets : updateStatus(o, newStatus)
  \/ \E transactionId \in TransactionIds : confirmTransaction(transactionId)

SpecPool == Init /\ [][NextPool]_vars

\* --------------------------------------- createTransaction, any argument
\* how TransactionService.createTransaction ends for its arguments: with the
\* error of its parameter check, with the error of isValid, with the error
\* of the schema at save, or with the saved document
SchemaRejects(tx) ==
  \/ tx.toAddress = NullAddr
  \/ tx.amount < 1
  \/ tx.fromAddress # NullAddr /\ tx.signature = "none"
createTransactionOutcome(tx) ==
  IF tx.toAddress = NullAddr \/ tx.amount <= 0 \/ tx.signature = "none"
  THEN "InvalidParameters"
  ELSE IF ~isValid(tx) THEN "InvalidTransaction"
  ELSE IF SchemaRejects(tx) THEN "SaveFailed"
  ELSE "ok"

\* TransactionService.createTransaction, the whole call
createTransactionCall(tx) ==
  /\ \A i \in 1..Len(txStore) : txStore[i].id # tx.id
  /\ LET outcome == createTransactionOutcome(tx)
     IN /\ txStore' = IF outcome = "ok" THEN Append(txStore, tx) ELSE txStore
        /\ probe' = [op |-> "createTransaction", tx |-> tx, result |-> outcome]
  /\ UNCHANGED <<difficultyField, walletVars, blockStore, pendingTransactions,
                 chainField, genesisCount, initPc, initBlock, minePc, mineLatest,
                 mineBlock, mineResult, syncLog, accepted, appendLog>>

\* What callers hand to addTransaction here: a document createTransaction
\* has returned
addCreated(tx) ==
  /\ tx \in SetOfSeq(txStore)
  /\ \A i \in 1..Len(pendingTransactions) : pendingTransactions[i].id # tx.id
  /\ addTransactionCall(tx)

NextCreate ==
  \/ \E i \in Instances : InitCount(i)
  \/ \E i \in Instances : InitCreate(i)
  \/ \E i \in Instances : InitSave(i)
  \/ \E tx \in InputTxs : createTransactionCall(tx)
  \/ \E tx \in InputTxs : addCreated(tx)

SpecCreate == Init /\ [][NextCreate]_vars

\* ------------------------------------------- isChainValid, the whole call
\* BlockchainService.isChainValid: it reads the blocks in index order and
\* each block's transactions, and writes nothing
isChainValidCall ==
  /\ (probe.op = "isChainValid" /\ probe.read = StoredChain)
       => probe.calls < MaxValidCalls
  /\ probe' = [op |-> "isChainValid",
               calls |-> IF probe.op = "isChainValid" /\ probe.read = StoredChain
                         THEN probe.calls + 1 ELSE 1,
               read |-> StoredChain,
               result |-> isChainValid(StoredChain)]
  /\ UNCHANGED <<difficultyField, walletVars, blockStore, txStore,
                 pendingTransactions, chainField, genesisCount, initPc, initBlock,
                 minePc, mineLatest, mineBlock, mineResult, syncLog, accepted,
                 appendLog>>

NextValid ==
  \/ NextAudit
  \/ isChainValidCall

SpecValid == Init /\ [][NextValid]_vars

\* --------------------------------------------------- NodeSynchronization
\* What fetchChainFromNode returns for a peer: the peer's chain, sound or
\* with a defect in its last block, or [] when the request fails
FetchedChains == {PeerChain(n, n, d) : n \in 0..MaxNodeLen, d \in Defects}
FetchedLists == UNION {[1..k -> FetchedChains] : k \in 0..NumPeers}

\* chains.sort((a, b) => b.length - a.length)[0]: the sort is stable, so
\* the first of the longest chains; <<>> stands for undefined as well, both
\* take the else branch
LongestChain(chains) ==
  IF Len(chains) = 0 THEN <<>>
  ELSE LET longest == CHOOSE i \in 1..Len(chains) :
                        /\ \A j \in 1..Len(chains) : Len(chains[j]) <= Len(chains[i])
                        /\ \A j \in 1..(i - 1) : Len(chains[j]) < Len(chains[i])
       IN chains[longest]

\* blockchain.isValidChain and blockchain.replaceChain: neither Blockchain
\* nor BlockchainService defines them; for a blockchain object that has
\* them, the validation is that of isChainValid and the replacement is the
\* assignment of the chain
isValidChain(chain) == isChainValid(chain)
replaceChain(chain) == chain

\* NodeSynchronization.synchronizeChain, from the fetched chains on: the
\* chain of the blockchain object afterwards and how the call ends.
\* hasMethods: whether the blockchain object has the two methods
nodeSyncOutcome(chains, hasMethods) ==
  LET longestChain == LongestChain(chains)
  IN IF Len(longestChain) > Len(chainField)
     THEN IF ~hasMethods THEN [chain |-> chainField, result |-> "TypeError"]
          ELSE IF isValidChain(longestChain)
               THEN [chain |-> replaceChain(longestChain), result |-> "replaced"]
               ELSE [chain |-> chainField, result |-> "kept"]
     ELSE [chain |-> chainField, result |-> "kept"]

nodeSynchronizeChain(chains, hasMethods) ==
  /\ LET o == nodeSyncOutcome(chains, hasMethods)
     IN /\ chainField' = o.chain
        /\ probe' = [op |-> "nodeSynchronizeChain", chains |-> chains,
                     hasMethods |-> hasMethods, result |-> o.result,
                     chainBefore |-> chainField, chainAfter |-> o.chain]
  /\ UNCHANGED <<difficultyField, walletVars, blockStore, txStore,
                 pendingTransactions, genesisCount, initPc, initBlock, minePc,
                 mineLatest, mineBlock, mineResult, syncLog, accepted, appendLog>>

NextNode ==
  \E chains \in FetchedLists, hasMethods \in BOOLEAN :
    nodeSynchronizeChain(chains, hasMethods)

SpecNode == Init /\ [][NextNode]_vars

\* ------------------------------------------ wallet Transaction: signatures
\* What the constructor was given for each Transaction object: a standard
\* transfer from W1
FieldsOf(o) ==
  [fromAddress |-> "W1", toAddress |-> "W2", amount |-> o, type |-> "standard",
   timestamp |-> 0]

\* Transaction.calculateHash: the hash of sender, recipient, amount, type,
\* timestamp and status
TransactionHash(o, status) ==
  <<FieldsOf(o).fromAddress, FieldsOf(o).toAddress, FieldsOf(o).amount,
    FieldsOf(o).type, FieldsOf(o).timestamp, status>>

\* crypto.signData(data, privateKey): the signature of the data under the
\* private key of an owner
signData(data, owner) == [kind |-> "signature", data |-> data, owner |-> owner]

\* crypto.verifySignature(data, publicKey, signature): verify.verify throws
\* when what it is given as the key is not a key; an address is the public
\* key of its owner
PublicKey(address) == [kind |-> "publicKey", owner |-> address]
verifySignature(data, publicKey, signature) ==
  IF publicKey.kind # "publicKey" THEN "throws"
  ELSE IF /\ signature.kind = "signature"
          /\ signature.data = data /\ signature.owner = publicKey.owner
       THEN "true" ELSE "false"

\* Transaction.signTransaction(privateKey)
Signers == {"W1", "W2"}
signTransaction(o, owner) ==
  /\ txStatus[o] # "unconstructed"
  /\ txSignature' = [txSignature EXCEPT ![o] = signData(TransactionHash(o, txStatus[o]), owner)]
  /\ UNCHANGED <<probe, txStatus, poolPending, poolConfirmed, ledgerVars>>

\* Transaction.isValid: "true", "false", or how it throws. The call hands
\* verifySignature the signature where the key belongs and the sender's
\* address where the signature belongs
VerifyArguments(hashTx, signature, fromAddress) ==
  verifySignature(hashTx, signature, PublicKey(fromAddress))
TransactionIsValid(o) ==
  IF FieldsOf(o).type = "reward" THEN "true"
  ELSE IF txSignature[o].kind = "null" THEN "MustBeSigned"
  ELSE IF FieldsOf(o).fromAddress = NullAddr THEN "MustHaveFromAddress"
  ELSE VerifyArguments(TransactionHash(o, txStatus[o]), txSignature[o],
                       FieldsOf(o).fromAddress)

isValidCall(o) ==
  /\ txStatus[o] # "unconstructed"
  /\ probe' = [op |-> "isValid", transaction |-> o, status |-> txStatus[o],
               signature |-> txSignature[o],
               hashTx |-> TransactionHash(o, txStatus[o]),
               result |-> TransactionIsValid(o)]
  /\ UNCHANGED <<walletVars, ledgerVars>>

NextSign ==
  \/ \E o \in WalletTxs : constructTransaction(o)
  \/ \E o \in WalletTxs : addOrUpdateTransaction(o)
  \/ \E o \in WalletTxs, newStatus \in StatusTargets : updateStatus(o, newStatus)
  \/ \E transactionId \in TransactionIds : confirmTransaction(transactionId)
  \/ \E o \in WalletTxs, owner \in Signers : signTransaction(o, owner)
  \/ \E o \in WalletTxs : isValidCall(o)

SpecSign == Init /\ [][NextSign]_vars

\* ------------------------------------ synchronizeChain, call after call
\* SynchronizationService.synchronizeChain from the parsed answer on, any
\* number of calls one after the other
synchronizeChainCall(cand) ==
  /\ genesisCount < MaxGenesisCount
  /\ \E t \in 0..MaxClock :
       /\ DateNow(t)
       /\ LET o == SyncOutcome(cand, genesisCount + 1, t)
          IN /\ chainField' = o.chain
             /\ IF o.updated
                THEN /\ genesisCount' = genesisCount + 1
                     /\ txStore' = txStore \o GenesisTransactions(genesisCount + 1)
                ELSE UNCHANGED <<genesisCount, txStore>>
  /\ UNCHANGED <<probe, difficultyField, walletVars, blockStore, pendingTransactions,
                 initPc, initBlock, minePc, mineLatest, mineBlock, mineResult,
                 syncLog, accepted, appendLog>>

NextGrow ==
  \/ \E i \in Instances : InitCount(i)
  \/ \E i \in Instances : InitCreate(i)
  \/ \E i \in Instances : InitSave(i)
  \/ \E tx \in ServiceTxs : createTransaction(tx)
  \/ \E tx \in Submittable : addTransaction(tx)
  \/ \E m \in MineCalls : MineStart(m)
  \/ \E m \in MineCalls : MineBuild(m)
  \/ \E m \in MineCalls : MineSave(m)
  \/ \E m \in MineCalls : MineClear(m)
  \/ \E cand \in Candidates : synchronizeChainCall(cand)

SpecGrow == Init /\ [][NextGrow]_vars

\* ---------------------------------------------------- two Merkle roots
\* new MerkleTree(first).getRoot() and new MerkleTree(second).getRoot()
TwoRoots(first, second) ==
  /\ probe' = [op |-> "getRoot", first |-> first, second |-> second,
               rootFirst |-> MerkleRoot(first), rootSecond |-> MerkleRoot(second)]
  /\ UNCHANGED <<difficultyField, walletVars, blockStore, txStore,
                 pendingTransactions, chainField, genesisCount, initPc, initBlock,
                 minePc, mineLatest, mineBlock, mineResult, syncLog, accepted,
                 appendLog>>

NextRoots == \E first \in LeafLists, second \in LeafLists : TwoRoots(first, second)

SpecRoots == Init /\ [][NextRoots]_vars

\* ------------------------------------------------- spending and mining
\* createTransaction and addTransaction of the spender's transactions, and
\* mining
NextSpend ==
  \/ \E i \in Instances : InitCount(i)
  \/ \E i \in Instances : InitCreate(i)
  \/ \E i \in Instances : InitSave(i)
  \/ \E tx \in SpendTxs : createTransaction(tx)
  \/ \E tx \in SpendTxs : tx \in SetOfSeq(txStore) /\ addTransaction(tx)
  \/ \E m \in MineCalls : MineStart(m)
  \/ \E m \in MineCalls : MineBuild(m)
  \/ \E m \in MineCalls : MineSave(m)
  \/ \E m \in MineCalls : MineClear(m)

SpecSpend == Init /\ [][NextSpend]_vars

\* ------------------------------------- several instances on an empty store
\* BlockchainService.getBalanceOfAddress, the whole call
getBalanceCall(address) ==
  /\ probe' = [op |-> "getBalanceOfAddress", address |-> address,
               balance |-> getBalanceOfAddress(address)]
  /\ UNCHANGED <<difficultyField, walletVars, blockStore, txStore,
                 pendingTransactions, chainField, genesisCount, initPc, initBlock,
                 minePc, mineLatest, mineBlock, mineResult, syncLog, accepted,
                 appendLog>>

\* each constructor starts initializeBlockchain without awaiting it
NextBoot ==
  \/ \E i \in BootInstances : InitCount(i)
  \/ \E i \in BootInstances : InitCreate(i)
  \/ \E i \in BootInstances : InitSave(i)
  \/ \E address \in Addresses : getBalanceCall(address)

SpecBoot == Init /\ [][NextBoot]_vars

\* ----------------------------------------------------------- properties
LinksHold(chain) == \A i \in 2..Len(chain) : chain[i].previousHash = chain[i - 1].hash
FinishedSyncs == {s \in SyncCalls : syncLog[s].result # "none"}
InPending(id) == \E i \in 1..Len(pendingTransactions) : pendingTransactions[i].id = id
InStoredBlock(id) == \E b \in blockStore : id \in SetOfSeq(b.transactions)

\* C1: in every reachable state, every block after the first of the chain
\* (the stored chain getChain returns, and the chain field synchronizeChain
\* writes) has previousHash equal to the hash of the block before it.
C1_ChainLinked == LinksHold(getChain) /\ LinksHold(chainField)

\* C1 witness: two mining calls have each stored a block on the genesis block.
C1_Witness == Cardinality(blockStore) = 3

\* C2: a transaction addTransaction has accepted is, in every state, still
\* in pendingTransactions or in a stored block; in particular one accepted
\* between a mining call's snapshot and its clearing of the queue is not lost.
C2_AcceptedNotLost == \A id \in accepted : InPending(id) \/ InStoredBlock(id)

C4_ShortCandidateNoMutation ==
  \A s \in FinishedSyncs :
    Len(syncLog[s].cand) <= Len(syncLog[s].chainBefore)
      => /\ syncLog[s].fieldAfter = syncLog[s].fieldBefore
         /\ syncLog[s].chainAfter = syncLog[s].chainBefore

\* C5: after a synchronizeChain call given a candidate that fails the
\* isChainValid checks (a broken link, a hash that is not the recomputed one,
\* an invalid transaction), the local chain is not that candidate.
C5_InvalidNeverInstalled ==
  \A s \in FinishedSyncs :
    ~isChainValid(syncLog[s].cand)
      => /\ WireChain(syncLog[s].fieldAfter) # WireChain(syncLog[s].cand)
         /\ WireChain(syncLog[s].chainAfter) # WireChain(syncLog[s].cand)

\* C5 witness: a synchronizeChain call has processed an invalid candidate
\* that is longer than the local chain.
C5_Witness ==
  \E s \in FinishedSyncs :
    /\ ~isChainValid(syncLog[s].cand)
    /\ Len(syncLog[s].cand) > Len(syncLog[s].chainBefore)

\* C6: after a synchronizeChain call given a valid candidate strictly longer
\* than the local chain, the chain of the ledger equals the candidate: the
\* same blocks in the same order.
C6_LongerValidReplaces ==
  \A s \in FinishedSyncs :
    (isChainValid(syncLog[s].cand) /\ Len(syncLog[s].cand) > Len(syncLog[s].chainBefore))
      => \/ WireChain(syncLog[s].chainAfter) = WireChain(syncLog[s].cand)
         \/ WireChain(syncLog[s].fieldAfter) = WireChain(syncLog[s].cand)

\* C7: after a synchronizeChain call, however it ended, the local chain is
\* the chain as it was before the call or the whole candidate.
C7_AllOrNothing ==
  \A s \in FinishedSyncs :
    /\ \/ syncLog[s].chainAfter = syncLog[s].chainBefore
       \/ WireChain(syncLog[s].chainAfter) = WireChain(syncLog[s].cand)
    /\ \/ syncLog[s].fieldAfter = syncLog[s].fieldBefore
       \/ WireChain(syncLog[s].fieldAfter) = WireChain(syncLog[s].cand)

\* C8: the hash of every block minePendingTransactions has stored begins
\* with `difficulty` zero characters.
C8_StoredHashMeetsDifficulty ==
  \A b \in blockStore : b.index > 0 => StartsWithZeros(b.hash, difficulty)

\* C9: the hash of every stored block is the hash calculateHash computes from
\* the stored index, previousHash, timestamp, merkleRoot and nonce.
C9_StoredHashIsHashOfFields == \A b \in blockStore : b.hash = calculateHash(b)

\* C9 witness: a stored block whose nonce proofOfWork had to increment.
C9_Witness == \E b \in blockStore : b.index > 0 /\ b.nonce > 0

\* C10: the merkleRoot of every stored block is the Merkle root of the
\* transactions the block lists.
C10_StoredRootIsRootOfList ==
  \A b \in blockStore : b.merkleRoot = MerkleRoot(ListedDocuments(b))

\* C15: a minePendingTransactions call that finds pendingTransactions empty
\* ends at once with the error "No transactions to mine." and leaves the
\* stored chain, the chain field and pendingTransactions as they were.
C15_NothingToMine ==
  [][\A m \in MineCalls :
       (minePc[m] = "idle" /\ minePc'[m] # "idle" /\ Len(pendingTransactions) = 0)
         => /\ minePc'[m] = "done" /\ mineResult'[m] = "NoTransactions"
            /\ blockStore' = blockStore /\ chainField' = chainField
            /\ pendingTransactions' = pendingTransactions]_vars

\* C15 witness: a mining call has ended with "No transactions to mine.".
C15_Witness == \E m \in MineCalls : mineResult[m] = "NoTransactions"

MiningFailures == {"TypeError", "MerkleError", "DuplicateIndex"}
RewardIds == {RewardTransaction(m).id : m \in MineCalls}
Quiescent ==
  /\ \A i \in Instances : initPc[i] \in {"done", "failed"}
  /\ \A m \in MineCalls : minePc[m] \in {"idle", "done"}

\* C16: once a minePendingTransactions call has failed after it pushed its
\* reward transaction, that reward transaction is no longer in
\* pendingTransactions.
C16_FailedMineLeavesNoReward ==
  \A m \in MineCalls :
    mineResult[m] \in MiningFailures => ~InPending(RewardTransaction(m).id)

\* C17: every block a mining call stored lists exactly one reward
\* transaction.
C17_OneRewardPerBlock ==
  \A b \in blockStore :
    b.index > 0 => Cardinality({i \in 1..Len(b.transactions) : b.transactions[i] \in RewardIds}) = 1

\* C18: every accepted transaction is listed in at most one stored block
\* and, when no mining call is under way, is not both in a stored block and
\* in pendingTransactions.
C18_NoDuplication ==
  \A id \in accepted :
    /\ Cardinality({b \in blockStore : id \in SetOfSeq(b.transactions)}) <= 1
    /\ Quiescent => ~(InStoredBlock(id) /\ InPending(id))

\* C19: when no call is under way, getBalanceOfAddress(A) is, for every
\* address A, the amount A received minus the amount A sent over the
\* transactions of the blocks of the stored chain, and over no other.
C19_BalanceIsChainBalance ==
  Quiescent =>
    \A a \in Addresses : getBalanceOfAddress(a) = BalanceOver(ChainTransactions(getChain), a)

\* C11: when a transaction that a stored block after the genesis block
\* lists has been altered in the collection, isChainValid reports the chain
\* invalid.
C11_AlteredTransactionDetected ==
  (\E i \in 1..Len(txStore) :
     /\ txStore[i] # DocumentOf(txStore[i].id)
     /\ \E b \in blockStore : b.index > 0 /\ txStore[i].id \in SetOfSeq(b.transactions))
    => ~isChainValid(StoredChain)

\* the blocks of the stored chain at a given index
BlocksAt(n) == {c \in blockStore : c.index = n}

\* Block.validateTransactions on a stored block: the Merkle root of the
\* transactions it lists, as they are now, is the stored merkleRoot, and
\* every one of them that is found is valid
CurrentDocument(id) ==
  IF \E i \in 1..Len(txStore) : txStore[i].id = id
  THEN txStore[CHOOSE i \in 1..Len(txStore) : txStore[i].id = id]
  ELSE DocumentOf(id)
validateTransactions(b) ==
  /\ b.merkleRoot = MerkleRoot([i \in 1..Len(b.transactions) |-> CurrentDocument(b.transactions[i])])
  /\ hasValidTransactions(WithTransactions(b))

\* C12: isChainValid reports the stored chain valid exactly when every block
\* at an index of 1 or more has the hash of the block at the index before it
\* as previousHash, has the hash calculateHash computes as hash, and passes
\* validateTransactions; a chain of the genesis block alone is valid.
C12_ValidIffEveryBlockChecks ==
  /\ isChainValid(StoredChain) <=>
       \A b \in blockStore :
         b.index >= 1 =>
           /\ \E p \in BlocksAt(b.index - 1) : b.previousHash = p.hash
           /\ calculateHash(b) = b.hash
           /\ validateTransactions(b)
  /\ Cardinality(blockStore) = 1 => isChainValid(StoredChain)

\* C13: an addTransaction call appends its argument to pendingTransactions
\* only when the argument has a sender, a recipient and isValid() true, it
\* appends nothing else, and when it fails pendingTransactions and the chain
\* are as they were before the call.
C13_AddOnlyValid ==
  probe.op = "addTransaction" =>
    /\ probe.pendingAfter # probe.pendingBefore
         => /\ probe.pendingAfter = Append(probe.pendingBefore, probe.tx)
            /\ isValid(probe.tx)
            /\ probe.tx.fromAddress # NullAddr /\ probe.tx.toAddress # NullAddr
    /\ probe.result # "ok"
         => /\ probe.pendingAfter = probe.pendingBefore
            /\ probe.chainAfter = probe.chainBefore

\* C13 witness: an addTransaction call has failed on a ledger that holds
\* its genesis block and a pending transaction.
C13_Witness ==
  /\ probe.op = "addTransaction" /\ probe.result = "InvalidTransaction"
  /\ Len(probe.pendingBefore) > 0 /\ Len(probe.chainBefore) > 0

\* C14: every transaction in pendingTransactions that has a sender carries
\* a signature that verifies against that sender.
C14_OnlyVerifiedSignatures ==
  \A i \in 1..Len(pendingTransactions) :
    pendingTransactions[i].fromAddress # NullAddr => pendingTransactions[i].signature = "good"

\* the total amount of the pending transactions an address sends
RECURSIVE PendingOutgoing(_, _)
PendingOutgoing(pending, a) ==
  IF pending = <<>> THEN 0
  ELSE PendingOutgoing(Tail(pending), a)
         + (IF Head(pending).fromAddress = a THEN Head(pending).amount ELSE 0)

\* C20: for every address, the available balance calculateBalances returns
\* is the confirmed balance minus the total amount of the address's pending
\* outgoing transactions, is not greater than the confirmed balance, and the
\* confirmed balance is the same as with no pending transactions.
C20_AvailableIsConfirmedMinusPending ==
  \A a \in Addresses :
    LET chainTransactions == ChainTransactions(getChain)
        r == calculateBalances(chainTransactions, pendingTransactions, a)
    IN /\ r.availableBalance = r.confirmedBalance - PendingOutgoing(pendingTransactions, a)
       /\ r.availableBalance <= r.confirmedBalance
       /\ r.confirmedBalance = calculateBalances(chainTransactions, <<>>, a).confirmedBalance

\* C21: for every non-empty list of transactions and every position in it,
\* the proof generated for the transaction at that position verifies
\* against the root of the tree built over the list.
C21_ProofVerifies ==
  probe.op = "generateProof" => probe.verified

\* C22: the block at index 0 of the local chain is one fixed genesis block:
\* no step changes the first block of the stored chain, and whenever the
\* ledger's chain field and the stored chain both have a first block, it is
\* the same block.
C22_GenesisFixed ==
  [][/\ getChain # <<>> => getChain' # <<>> /\ getChain'[1] = getChain[1]
     /\ (chainField' # <<>> /\ getChain' # <<>>) => chainField'[1] = getChain'[1]]_vars

\* C23: two ledgers initialised independently and at different times build
\* identical genesis blocks: the same index, previousHash, timestamp,
\* transactions, merkleRoot and hash.
C23_GenesisDeterministic ==
  probe.op = "createGenesisBlock" => probe.first = probe.second

\* C24: the difficulty is never below 1, whatever times are reported to
\* adjustDifficulty and whatever is mined in between.
C24_DifficultyAtLeastOne == difficultyField >= 1

\* C24 witness: adjustDifficulty was called with a slow time while the
\* difficulty was 1, and a block has been mined since the ledger started.
C24_Witness ==
  /\ probe.op = "adjustDifficulty"
  /\ probe.before = 1
  /\ probe.blockTime >= AdjustThreshold
  /\ difficultyField = 1
  /\ \E b \in blockStore : b.index > 0

\* C25: after each successfully mined block the difficulty has been
\* adjusted once by that block's mining time: one more when the time is
\* below blockTime/2. No mining call lasts longer than the clock runs, so
\* with a clock that ends before blockTime/2 the difficulty is the initial
\* one plus the number of blocks mined.
C25_AdjustedAfterEachBlock ==
  LET mined == Cardinality({m \in MineCalls : mineResult[m] = "ok"})
      longest == MaxClock * (1000 \div TicksPerSecond)
  IN longest < blockTime \div 2 => difficultyField = difficulty + mined

\* C26: a status only moves from pending to confirmed: updateStatus with
\* any other pair of current status and target fails and leaves the status
\* as it was, and no step makes a confirmed transaction pending.
C26_StatusOnlyForward ==
  [][/\ probe'.op = "updateStatus" /\ probe' # probe
          /\ ~(probe'.before = "pending" /\ probe'.newStatus = "confirmed")
        => probe'.result = "Error" /\ probe'.after = probe'.before
     /\ \A o \in WalletTxs : txStatus[o] = "confirmed" => txStatus'[o] # "pending"]_vars

\* C27: every transaction listed in a block of the stored chain has the
\* status confirmed and every transaction in pendingTransactions has the
\* status pending.
C27_StatusMatchesPlace ==
  /\ \A b \in blockStore : \A i \in 1..Len(ListedDocuments(b)) :
       StatusOf(ListedDocuments(b)[i]) = "confirmed"
  /\ \A i \in 1..Len(pendingTransactions) : StatusOf(pendingTransactions[i]) = "pending"

\* C28: what is in the chain is not changed afterwards. Every step keeps
\* every stored block and every stored transaction as it is, a block that is
\* added has an index above those of all stored blocks, and the chain field
\* changes only in a step of synchronizeChain.
C28_HistoryImmutable ==
  [][/\ blockStore \subseteq blockStore'
     /\ \A b \in blockStore' \ blockStore : \A c \in blockStore : c.index < b.index
     /\ Len(txStore) <= Len(txStore') /\ SubSeq(txStore', 1, Len(txStore)) = txStore
     /\ chainField' # chainField => syncLog' # syncLog]_vars

\* C28 witness: two blocks have been appended by mining, one after the
\* other, and a synchronizeChain call has replaced the chain field.
C28_Witness ==
  /\ Cardinality(blockStore) = 3
  /\ Cardinality(appendLog) = 2
  /\ chainField # <<>>

\* C29: every block of the stored chain has the index of its position, so
\* no two of them share an index, however the mining calls interleave.
C29_IndexIsPosition ==
  \A i \in 1..Len(getChain) : getChain[i].index = i - 1

\* C29 witness: two mining calls overlapped, both built a block on the same
\* tip, one was stored and the other refused.
C29_Witness ==
  /\ Len(getChain) = 2
  /\ \E m \in MineCalls : mineResult[m] = "DuplicateIndex"
  /\ \E m \in MineCalls : mineResult[m] = "ok"

LedgerTransactions ==
  SetOfSeq(pendingTransactions)
    \cup UNION {SetOfSeq(FindTransactions(b.transactions)) : b \in blockStore}

\* C31: transaction creation fails when the amount is not positive and when
\* a standard transaction has no sender, and no transaction with a
\* non-positive amount is in pendingTransactions or in a block.
C31_CreationRejects ==
  /\ probe.op = "createTransaction"
       => /\ probe.tx.amount <= 0 => probe.result # "ok"
          /\ probe.tx.fromAddress = NullAddr => probe.result # "ok"
  /\ \A tx \in LedgerTransactions : tx.amount > 0

\* C31 counterexample: createTransaction has returned a saved standard
\* transaction that has no sender.
C31_Counterexample ==
  ~(/\ probe.op = "createTransaction" /\ probe.result = "ok"
    /\ probe.tx.fromAddress = NullAddr /\ probe.tx.amount > 0
    /\ probe.tx \in SetOfSeq(txStore))

ValidLonger(p) ==
  {i \in 1..Len(p.chains) :
     isChainValid(p.chains[i]) /\ Len(p.chains[i]) > Len(p.chainBefore)}

\* C33: after NodeSynchronization.synchronizeChain, when a fetched chain is
\* valid and strictly longer than the local chain, the local chain is the
\* longest such chain, also when a longer fetched chain is invalid; else the
\* local chain is as before.
C33_LongestValidWins ==
  probe.op = "nodeSynchronizeChain" =>
    IF ValidLonger(probe) # {}
    THEN \E i \in ValidLonger(probe) :
           /\ probe.chainAfter = probe.chains[i]
           /\ \A j \in ValidLonger(probe) : Len(probe.chains[j]) <= Len(probe.chains[i])
    ELSE probe.chainAfter = probe.chainBefore

\* C33 counterexample: the blockchain object has both methods, a fetched
\* chain is valid and longer than the local chain of one block and more, a
\* longer fetched chain is invalid, and the local chain is kept.
C33_Counterexample ==
  ~(/\ probe.op = "nodeSynchronizeChain" /\ probe.hasMethods
    /\ Len(probe.chainBefore) >= 1
    /\ ValidLonger(probe) # {}
    /\ \E j \in 1..Len(probe.chains) :
         /\ ~isChainValid(probe.chains[j])
         /\ \A i \in ValidLonger(probe) : Len(probe.chains[j]) > Len(probe.chains[i])
    /\ probe.result = "kept" /\ probe.chainAfter = probe.chainBefore)

\* the pending transactions that the block stored at an index does not list
NotListedAt(index) ==
  {i \in 1..Len(pendingTransactions) :
     \A b \in blockStore :
       b.index = index => pendingTransactions[i].id \notin SetOfSeq(b.transactions)}

\* C34: when a minePendingTransactions call completes without an error, the
\* chain is one block longer than the chain the call read, and the block
\* the call stored lists every transaction the call removes from
\* pendingTransactions, also when mining calls overlap.
C34_MinedBlockHoldsRemoved ==
  [][\A m \in MineCalls :
       (mineResult[m] # "ok" /\ mineResult'[m] = "ok")
         => \E e \in appendLog :
              /\ e.call = m
              /\ Cardinality(blockStore') = e.index + 1
              /\ NotListedAt(e.index) = {}]_vars

\* C34 counterexample: the only mining call that has started completes
\* without an error and removes a pending transaction that the block it
\* stored does not list.
C34_Counterexample ==
  [][~(\E m \in MineCalls :
         /\ mineResult[m] # "ok" /\ mineResult'[m] = "ok"
         /\ \A k \in MineCalls \ {m} : minePc[k] = "idle"
         /\ \E e \in appendLog :
              /\ e.call = m /\ Cardinality(blockStore') = e.index + 1
              /\ NotListedAt(e.index) # {}
         /\ pendingTransactions' = <<>>)]_vars

\* a signature made by the sender of a Transaction object while the object
\* was pending
SignedWhilePending(o, signature) ==
  signature = signData(<<FieldsOf(o).fromAddress, FieldsOf(o).toAddress,
                         FieldsOf(o).amount, FieldsOf(o).type,
                         FieldsOf(o).timestamp, "pending">>,
                       FieldsOf(o).fromAddress)

\* C35: a transaction that its sender signed while it was pending passes
\* isValid once its status is confirmed: what is signed and verified covers
\* sender, recipient, amount, kind and timestamp only.
C35_ConfirmedStillValid ==
  (/\ probe.op = "isValid" /\ probe.status = "confirmed"
   /\ SignedWhilePending(probe.transaction, probe.signature))
    => /\ probe.result = "true"
       /\ Len(probe.hashTx) = 5

\* C35 counterexample: isValid has been called on a confirmed transaction
\* that its sender signed while it was pending; the hash it verifies is not
\* the hash that was signed, and it has not returned true.
C35_Counterexample ==
  ~(/\ probe.op = "isValid" /\ probe.status = "confirmed"
    /\ SignedWhilePending(probe.transaction, probe.signature)
    /\ probe.hashTx # probe.signature.data
    /\ probe.result # "true")

\* C36: no step of addTransaction, minePendingTransactions or
\* synchronizeChain, a rejected or half-done synchronization included, makes
\* the local chain shorter: neither the stored chain nor the chain field.
C36_ChainNeverShrinks ==
  [][/\ Len(getChain') >= Len(getChain)
     /\ Len(chainField') >= Len(chainField)]_vars

\* C36 witness: two synchronizations have reset the chain field and failed
\* in addBlock on a ledger whose stored chain has a mined block.
C36_Witness ==
  /\ genesisCount = MaxGenesisCount /\ Len(chainField) = 1
  /\ Len(getChain) >= 2

\* C37: two different ordered transaction lists have different Merkle
\* roots, also when the second is the first, of odd length, with its last
\* transaction repeated.
C37_RootsDistinguishLists ==
  (probe.op = "getRoot" /\ probe.first # probe.second)
    => probe.rootFirst # probe.rootSecond

\* C37 counterexample: the roots have been computed of a list of three
\* transactions and of that list with its last transaction repeated, and
\* they are equal.
C37_Counterexample ==
  ~(/\ probe.op = "getRoot" /\ Len(probe.first) = 3
    /\ probe.second = Append(probe.first, probe.first[3])
    /\ probe.first[1] # probe.first[2]
    /\ probe.rootFirst = probe.rootSecond)

\* the hash of every block of a chain after the first meets the
\* proof-of-work target
MeetsTarget(chain) ==
  \A i \in 2..Len(chain) : StartsWithZeros(chain[i].hash, difficulty)

\* C38: synchronizeChain accepts no candidate with a non-genesis block whose
\* hash misses the proof-of-work target, and after any mines and
\* synchronizations every non-genesis block of the local chain meets it.
C38_ProofOfWorkEverywhere ==
  /\ \A s \in FinishedSyncs :
       syncLog[s].result = "accepted" => MeetsTarget(syncLog[s].cand)
  /\ MeetsTarget(getChain)
  /\ MeetsTarget(chainField)

\* C38 counterexample: a mining call and a synchronization have completed,
\* and the stored chain has a non-genesis block whose hash misses the
\* target.
C38_Counterexample ==
  ~(/\ FinishedSyncs # {}
    /\ \E m \in MineCalls : mineResult[m] = "ok"
    /\ \A m \in MineCalls : minePc[m] \in {"idle", "done"}
    /\ ~MeetsTarget(getChain))

\* the addresses that send a transaction of the stored chain
ChainSenders ==
  {ChainTransactions(getChain)[i].fromAddress : i \in 1..Len(ChainTransactions(getChain))}
    \ {NullAddr}

\* C39: after any addTransaction and minePendingTransactions operations,
\* the confirmed balance of every address that has sent a transaction, its
\* balance over the transactions of the chain, is not negative.
C39_NoOverspend ==
  \A a \in ChainSenders : BalanceOver(ChainTransactions(getChain), a) >= 0

\* C39 counterexample: all calls have completed, the chain holds a mined
\* block with a transaction of an address whose confirmed balance is
\* negative, and getBalanceOfAddress returns a negative balance for it.
C39_Counterexample ==
  ~(/\ Quiescent
    /\ \E a \in ChainSenders :
         /\ BalanceOver(ChainTransactions(getChain), a) < 0
         /\ getBalanceOfAddress(a) < 0)

\* every instance has finished initializeBlockchain
Booted == \A i \in BootInstances : initPc[i] \in {"done", "failed"}

\* what the genesis block credits an address with
GenesisCredit(address) == BalanceOver(GenesisTransactions(1), address)

\* C40: when several instances have run initializeBlockchain on the same
\* empty store, there is one genesis block and one set of genesis funding
\* transactions, and getBalanceOfAddress returns for each funded address
\* the amount the genesis block credits it with.
C40_OneGenesis ==
  Booted =>
    /\ Cardinality({b \in blockStore : b.index = 0}) = 1
    /\ Len(txStore) = Len(GenesisTransactions(1))
    /\ probe.op = "getBalanceOfAddress"
         => probe.balance = GenesisCredit(probe.address)

\* C40 counterexample: both instances have finished, the store holds one
\* genesis block and two sets of funding transactions, and
\* getBalanceOfAddress has returned twice the genesis amount for W1.
C40_Counterexample ==
  ~(/\ Booted
    /\ Cardinality(blockStore) = 1
    /\ Len(txStore) = 2 * Len(GenesisTransactions(1))
    /\ probe.op = "getBalanceOfAddress" /\ probe.address = "W1"
    /\ probe.balance = getBalanceOfAddress("W1")
    /\ probe.balance = 2 * GenesisAmount)

====
